---- MODULE Spec2Model ----
(***************************************************************************)
(* Model of the broadcast subsystem of barcelona_bots:                     *)
(*   utils/sending/sending.py  universal_broadcast, send_to_user,          *)
(*                             forward_message_with_entities,              *)
(*                             get_file_from_message, semaphore            *)
(* One run of universal_broadcast is a process whose position is pc; the   *)
(* steps are the pieces of code between two suspension points (await) of   *)
(* the asyncio event loop.                                                 *)
(***************************************************************************)
EXTENDS Integers, Sequences, FiniteSets, TLC

\* ---------------------------------------------------------------- bounds
\* longest recipient list of the per-position model
MaxUsers == 3
\* largest explicit chunk_size argument (the default, 100, is always tried)
MaxChunk == 2
\* length of the long recipient list of the first-in-first-out model
FifoUsers == 30
\* longest recipient list the store returns to the composer
MaxClients == 2
\* longest link text, in tokens, of the exhaustive link inputs
MaxUrlToks == 4
\* requests the endpoint handles
MaxLeads == 2
\* /start updates the user bot handles
MaxStarts == 3
\* concurrent calls of universal_broadcast, and the small capacities of the
\* semaphore they are run with (beside CONCURRENCY_LIMIT)
MaxRuns == 3
MaxCap == 2

\* ------------------------------------------------------ program constants
CONCURRENCY_LIMIT == 29
DEFAULT_CHUNK_SIZE == 100
\* throttle_delay = 0.05 s, in milliseconds
THROTTLE_DELAY_MS == 50
\* validate_telegram_url: len(url) < 5 or len(url) > 2048
MIN_URL_LEN == 5
MAX_URL_LEN == 2048
\* is_valid_button_text: max_len of a "normal" button
MAX_BUTTON_TEXT == 64

\* recipient ids (opaque); two ids are enough to have duplicates
UserIds == {101, 102}

\* names of the exception types a platform call raises
PlatformErrors == {"TelegramForbiddenError", "TelegramRetryAfter"}

\* Python's None, and the absent reply_markup
None == [type |-> "none"]

\* a types.Message: its kind is the one media/text attribute that is set
MsgKinds == {"text", "photo", "video", "document", "voice", "video_note",
             "audio", "sticker"}
CaptionKinds == {"photo", "video", "document", "voice", "audio"}
Messages ==
    {[type |-> "msg", kind |-> k, caption |-> c] :
        k \in MsgKinds, c \in BOOLEAN} \
    {[type |-> "msg", kind |-> k, caption |-> TRUE] :
        k \in MsgKinds \ CaptionKinds}
StrContent == [type |-> "str"]
Contents == Messages \cup {StrContent}

Keyboard == [type |-> "markup"]
Markups == {None, Keyboard}

ChunkSizes == (1 .. MaxChunk) \cup {DEFAULT_CHUNK_SIZE}

RECURSIVE SeqsUpTo(_, _)
SeqsUpTo(S, n) ==
    IF n = 0 THEN {<< >>}
    ELSE LET shorter == SeqsUpTo(S, n - 1)
         IN  shorter \cup {Append(s, x) : s \in {t \in shorter : Len(t) = n - 1}, x \in S}

RecipientLists == SeqsUpTo(UserIds, MaxUsers)

\* the long list: FifoUsers recipients, ids alternating
LongList == [p \in 1 .. FifoUsers |-> IF p % 2 = 1 THEN 101 ELSE 102]

VARIABLES
    pc,          \* position of the run of universal_broadcast
    content,     \* parameter content (rebound to msg_id after the relay)
    user_ids,    \* parameter user_ids
    another_bot, \* parameter another_bot
    chunk_size,  \* parameter chunk_size
    reply_markup,\* parameter reply_markup
    stats,       \* the dict stats
    msg_id,      \* local msg_id
    i,           \* loop variable of the chunk loop (offset of the chunk)
    status,      \* per list position: state of its send_to_user task
    tasks,       \* per list position: number of send_to_user tasks created
    calls,       \* per list position: the platform send calls issued
    permits,     \* semaphore._value
    semAcquires, \* acquisitions of the semaphore by this run (relay + gate)
    relayCalls,  \* calls of forward_message_with_entities by this run
    relaySends,  \* platform send calls issued by the relay in this run
    relayError,  \* name of the exception raised inside the relay, "" if none
    sleeps,      \* durations (ms) of the asyncio.sleep calls of this run
    chunks,      \* the chunks started by this run (sets of list positions)
    caller,      \* who awaits the run: "none", "api", "preview", "start_sending"
    fsm,         \* FSMContext state of the operator's conversation
    data,        \* FSMContext data of the operator's conversation
    update,      \* the last update a handler of admin_router handled
    reply,       \* the last answer a handler sent to the operator
    http,        \* the offer-confirmation endpoint: request in progress, rows
                 \* saved, adapter calls and the response
    full,        \* full-list runs started for the composition in confirmation,
                 \* and start_sending handlers running beside the first one
    guest,       \* the admin bot's conversation with a user outside ADMIN_IDS
    store,       \* the clients table and the /start handlers of the user bot
    sem          \* the semaphore shared by several concurrent runs

vars == << pc, content, user_ids, another_bot, chunk_size, reply_markup, stats,
           msg_id, i, status, tasks, calls, permits, semAcquires, relayCalls,
           relaySends, relayError, sleeps, chunks, caller, fsm, data, update, reply,
           http, full, guest, store, sem >>

composer == << fsm, data, update, reply, full >>

\* the parts of the program a broadcast run and the composer do not touch
side == << http, guest, store, sem >>

params == << content, user_ids, another_bot, chunk_size, reply_markup >>

\* ------------------------------------------------------------- helpers
Min(a, b) == IF a < b THEN a ELSE b

RECURSIVE SumOver(_, _)
SumOver(f, S) ==
    IF S = {} THEN 0
    ELSE LET x == CHOOSE y \in S : TRUE
         IN  f[x] + SumOver(f, S \ {x})

\* sum(stats['errors'].values())
ErrorsSum(st) == SumOver(st.errors, DOMAIN st.errors)

EmptyErrors == [e \in {} |-> 0]

\* mutant of NewStats: the statistics start all zero
NewStatsZeroTotal(ids) ==
    [total |-> 0, success |-> 0, failed |-> 0, errors |-> [e \in {} |-> 0]]

\* stats = {'total': len(user_ids), 'success': 0, 'failed': 0, 'errors': {}}
NewStats(ids) ==
    [total |-> Len(ids), success |-> 0, failed |-> 0, errors |-> EmptyErrors]

\* mutants of IncSuccess: the increment is forgotten; the increment writes
\* back a value read when the chunk was started (a lost update)
IncSuccessForgotten(st) == st
IncSuccessStale(st) ==
    [st EXCEPT !.success =
        Cardinality({p \in DOMAIN status : p <= i /\ status[p] = "ok"}) + 1]

\* stats['success'] += 1
IncSuccess(st) == [st EXCEPT !.success = @ + 1]

\* mutant of CountFailure: the error class is not recorded
CountFailureUnclassified(st, name) == [st EXCEPT !.failed = @ + 1]

\* errors[name] = errors.get(name, 0) + 1 ; stats['failed'] += 1
CountFailure(st, name) ==
    [st EXCEPT
        !.errors = [e \in DOMAIN st.errors \cup {name} |->
                       IF e = name
                       THEN (IF name \in DOMAIN st.errors THEN st.errors[name] ELSE 0) + 1
                       ELSE st.errors[e]],
        !.failed = @ + 1]

\* "except Exception as e" of send_to_user: every exception a platform call
\* or the attribute probing raises is a subclass of Exception
Catches(e) == e \in PlatformErrors \cup {"AttributeError"}

\* the except clause: count the failure; an exception it does not catch
\* leaves the task
Fail(st, e) == IF Catches(e) THEN CountFailure(st, e) ELSE st
Failed(e) == IF Catches(e) THEN "fail" ELSE "raised"

\* asyncio.gather(*tasks, return_exceptions=True) never raises; without the
\* flag it raises what a task raised
ReturnExceptions == TRUE
GatherPropagates(raised) == ~ReturnExceptions /\ raised

\* isinstance(content, types.Message) and another_bot
NeedsRelay(c, ab) == c.type = "msg" /\ ab

\* mutant of RelayAbsent: the absent handle is not checked
RelayAbsentUnchecked(m) == FALSE

\* if msg_id is None
RelayAbsent(m) == m = None

\* What send_to_user does with the content before its first suspension:
\* the if/elif chain probing content.photo, .video, .voice, .video_note,
\* .text, then isinstance(content, str).
\*   a platform method name : that call is awaited
\*   "AttributeError"       : content.photo raises (content is a str)
\*   "nothing"              : no branch matches, falls through to success
Dispatch(c) ==
    IF c.type # "msg" THEN "AttributeError"
    ELSE CASE c.kind = "photo"      -> "send_photo"
           [] c.kind = "video"      -> "send_video"
           [] c.kind = "voice"      -> "send_voice"
           [] c.kind = "video_note" -> "send_video_note"
           [] c.kind = "text"       -> "send_message"
           [] OTHER                 -> "nothing"

\* mutant of SendMarkup: the video-note branch is called without the markup
SendMarkupVideoNoteBare(method, rm) ==
    IF method = "send_video_note" THEN None ELSE rm

\* the reply_markup argument of the platform call of each branch, lines 121,
\* 131, 144, 165, 175: "reply_markup or None"
SendMarkup(method, rm) == IF rm = None THEN None ELSE rm

\* mutant of LoopContinues: the loop gives up after a failed send
LoopStopsOnFailure(j, n, st) == j < n /\ st.failed = 0

\* range(0, len(user_ids), chunk_size): is offset j a chunk start
LoopContinues(j, n, st) == j < n

\* mutant of ChunkPositions: the slice is one element too long
ChunkPositionsOverlap(j, n, cs) == (j + 1) .. Min(j + cs + 1, n)

\* chunk = user_ids[i:i + chunk_size], as list positions (1-based)
ChunkPositions(j, n, cs) == (j + 1) .. Min(j + cs, n)

\* mutant of GatherDone: the gather never returns
GatherDoneNever(st, ps) == FALSE

\* mutant of GatherDone: the gather returns with the first finished task
GatherDoneFirst(st, ps) == \E p \in ps : st[p] # "inflight"

\* mutant of GatherDone: the tasks are not awaited at all
GatherDoneNoWait(st, ps) == TRUE

\* await asyncio.gather(*tasks): every task of the chunk ps is done
GatherDone(st, ps) == \A p \in ps : st[p] # "inflight"

\* asyncio.sleep(throttle_delay * chunk_size), in ms
SleepDuration(cs) == THROTTLE_DELAY_MS * cs

InFlight == {p \in DOMAIN status : status[p] = "inflight"}

\* ------------------------------------------------------------------
\* Composer workflow, utils/sending/sending_handlers.py
\* ------------------------------------------------------------------
\* ids in ADMIN_IDS; the operator is one of them
AdminIds == {900}
Operator == CHOOSE a \in AdminIds : TRUE

\* a message without text (message.text is None), an absent link or label
NoText == << >>

\* class Sending(StatesGroup)
ComposerStates ==
    {"wait_materials", "need_button", "wait_button_link", "wait_button_text",
     "confirmation"}

\* FSMContext data after state.clear()
EmptyData == [message |-> None, button_link |-> NoText, button_text |-> None]

NoUpdate == [kind |-> "none", what |-> "", text |-> NoText, at |-> "none"]
\* the last answer of a handler (key), a count it reports (n) and the answer
\* the same handler gave before it (before)
NoReply == [key |-> "", n |-> 0, before |-> ""]

\* A link text is a sequence of tokens: a word (letters, digits, "+", "-",
\* ".", starting with a letter) or one of the delimiters below; the text is
\* the concatenation of its tokens.  A text has one such sequence when no
\* two words are adjacent and no "/" is followed by a slash.
UrlDelims == {":", "//", "/", "?", "#", " ", "<"}
UrlWords == {"https", "tg", "join", "unknownaction"}
UrlAlphabet == UrlWords \cup {":", "//", "/", "?", " "}

IsWord(t) == t \notin UrlDelims

\* may token t follow token s
Follows(s, t) ==
    /\ ~(IsWord(s) /\ IsWord(t))
    /\ ~(s = "/" /\ t \in {"/", "//"})

\* the token sequences of exactly n tokens
RECURSIVE TokSeqs(_)
TokSeqs(n) ==
    IF n = 1 THEN {<< t >> : t \in UrlAlphabet}
    ELSE UNION {{Append(u, t) : t \in {x \in UrlAlphabet : Follows(u[n - 1], x)}} :
                   u \in TokSeqs(n - 1)}

\* the link texts written out in full
SampleUrls ==
    { << "https", ":", "//", "example.com", "/", "x" >>,
      << "HTTPS", ":", "//", "example.com" >>,
      << "tg", ":", "//", "join" >>,
      << "tg", ":", "//", "resolve", "?", "domain=x" >>,
      << "tg", ":", "//", "unknownaction" >>,
      << "tg", ":", "join" >>,
      << "tg", ":", "//", "x", "/", "join" >>,
      << "https", ":", "//", "example.com", "/", " ", "x" >>,
      << "https", ":", "//", "example.com", "/", "<", "x" >>,
      << "tg", ":", "//", "join", "/", "join" >>,
      << "ftp", ":", "//", "example.com" >>,
      << "tg", ":", "x" >>,
      << "tg.me", ":", "//", "example.com" >>,
      << "http", ":", "//", "example.com" >>,
      << "http", ":", "x" >> }

UrlInputs == UNION {TokSeqs(n) : n \in 1 .. MaxUrlToks} \cup SampleUrls

\* len(url)
RECURSIVE UrlLen(_)
UrlLen(u) == IF u = << >> THEN 0 ELSE Len(Head(u)) + UrlLen(Tail(u))

\* urlparse lower-cases the scheme
Lower(t) ==
    CASE t = "HTTPS" -> "https"
      [] t = "HTTP"  -> "http"
      [] t = "TG"    -> "tg"
      [] OTHER       -> t

\* index of the first token of u in S at or after k, Len(u) + 1 if none
RECURSIVE FindTok(_, _, _)
FindTok(u, S, k) ==
    IF k > Len(u) THEN Len(u) + 1
    ELSE IF u[k] \in S THEN k
    ELSE FindTok(u, S, k + 1)

\* urllib.parse.urlparse(url): scheme, netloc, path (query and fragment are
\* cut off the path); the text before the first ":" is the scheme when it
\* is one word
UrlParse(u) ==
    LET colon   == FindTok(u, {":"}, 1)
        hasSch  == colon = 2 /\ IsWord(u[1])
        scheme  == IF hasSch THEN Lower(u[1]) ELSE ""
        rest    == IF hasSch THEN SubSeq(u, 3, Len(u)) ELSE u
        hasNet  == Len(rest) >= 1 /\ rest[1] = "//"
        netEnd  == FindTok(rest, {"/", "//", "?", "#"}, 2)
        netloc  == IF hasNet THEN SubSeq(rest, 2, netEnd - 1) ELSE << >>
        after   == IF hasNet THEN SubSeq(rest, netEnd, Len(rest)) ELSE rest
        noFrag  == SubSeq(after, 1, FindTok(after, {"#"}, 1) - 1)
        path    == SubSeq(noFrag, 1, FindTok(noFrag, {"?"}, 1) - 1)
    IN  [scheme |-> scheme, netloc |-> netloc, path |-> path]

\* str.lstrip('/')
RECURSIVE LStripSlash(_)
LStripSlash(q) ==
    IF q # << >> /\ Head(q) \in {"/", "//"} THEN LStripSlash(Tail(q)) ELSE q

\* the text of a token sequence
RECURSIVE Concat(_)
Concat(q) == IF q = << >> THEN "" ELSE Head(q) \o Concat(Tail(q))

AllowedActions ==
    {"resolve", "login", "join", "addstickers", "share", "msg", "confirmphone",
     "socks", "proxy", "privatepost", "bg", "setlanguage"}

\* re.search(r'[\s<>\[\]{}]', url)
ForbiddenChars == {" ", "<", ">", "[", "]", "{", "}"}

\* parsed.path.lstrip('/').split('?')[0]
TgAction(path) ==
    LET q == LStripSlash(path)
    IN  Concat(SubSeq(q, 1, FindTok(q, {"?"}, 1) - 1))

\* validate_telegram_url(url): "ok" or the reason of the rejection
ValidateUrl(u) ==
    LET parsed == UrlParse(u) IN
    IF UrlLen(u) < MIN_URL_LEN \/ UrlLen(u) > MAX_URL_LEN THEN "length"
    ELSE IF parsed.scheme \notin {"http", "https", "tg", "tg.me"} THEN "scheme"
    ELSE IF parsed.scheme \in {"http", "https"} /\ parsed.netloc = << >> THEN "no_domain"
    ELSE IF parsed.scheme = "tg" /\ parsed.path = << >> THEN "bad_tg_link"
    ELSE IF parsed.scheme = "tg" /\ TgAction(parsed.path) \notin AllowedActions
         THEN "tg_action"
    ELSE IF \E k \in 1 .. Len(u) : u[k] \in ForbiddenChars THEN "forbidden_chars"
    ELSE "ok"

\* mutant of LinkOutcome: the result of the validation is ignored
LinkOutcomeUnchecked(t) == IF t = NoText THEN "bad_format" ELSE "ok"

\* handle_button_link, lines 125-191: what the handler does with the text
\*   "bad_format" : not message.text, answer and return
\*   "error"      : not is_valid, answer and return
\*   "ok"         : the link is stored
LinkOutcome(t) ==
    IF t = NoText THEN "bad_format"
    ELSE IF ValidateUrl(t) # "ok" THEN "error"
    ELSE "ok"

\* A button label: its length, whether it holds a newline, whether it is
\* blank (text.strip() is empty)
Labels ==
    { [len |-> 10, newline |-> FALSE, blank |-> FALSE],
      [len |-> 64, newline |-> FALSE, blank |-> FALSE],
      [len |-> 65, newline |-> FALSE, blank |-> FALSE],
      [len |-> 10, newline |-> TRUE,  blank |-> FALSE],
      [len |-> 65, newline |-> TRUE,  blank |-> FALSE],
      [len |-> 3,  newline |-> FALSE, blank |-> TRUE] }

\* mutant of IsValidButtonText: the newline test is left out
IsValidButtonTextLengthOnly(l) == ~l.blank /\ l.len <= MAX_BUTTON_TEXT

\* is_valid_button_text(text), lines 206-217
IsValidButtonText(l) == ~l.blank /\ l.len <= MAX_BUTTON_TEXT /\ ~l.newline

\* InlineKeyboardMarkup with one url button
UrlKeyboard(label, link) == [type |-> "markup", text |-> label, url |-> link]

\* the result of get_all_user_ids()
ClientLists == SeqsUpTo(UserIds, MaxClients)

\* the link texts the operator sends in the composer model
ComposerLinks ==
    { << "https", ":", "//", "example.com", "/", "x" >>,
      << "tg", ":", "//", "x", "/", "join" >>,
      << "tg", ":", "//", "join" >>,
      << "ftp", ":", "//", "example.com" >>,
      << "https", ":", "//", "example.com", "/", " ", "x" >>,
      NoText }

\* ------------------------------------------------------------------
\* Offer confirmation endpoint, api_server.py
\* ------------------------------------------------------------------
\* JSON null / Python None of a string field
Null == "null"

\* str.strip() on the texts used below
Strip(v) ==
    CASE v = " "       -> ""
      [] v = " a@b.c " -> "a@b.c"
      [] OTHER         -> v

\* (value or "")
OrEmpty(v) == IF v = Null THEN "" ELSE v

EmptyDict == [k \in {} |-> ""]

\* dict.get(k): an absent key and an empty value are both falsy
Get(d, k) == IF k \in DOMAIN d THEN d[k] ELSE ""

\* d[k] = v
Put(d, k, v) == [x \in DOMAIN d \cup {k} |-> IF x = k THEN v ELSE d[x]]

\* d.setdefault(k, v)
SetDefault(d, k, v) == IF k \in DOMAIN d THEN d ELSE Put(d, k, v)

\* values a key of additional_data takes in the requests checked
AdditionalValues ==
    [email |-> {"x@y.z", " "}, user_email |-> {"u@y.z"},
     payment_type |-> {"installment"}, tariff_id |-> {"7"}, currency |-> {"usd"}]

AdditionalKeys == DOMAIN AdditionalValues

\* additional_data: null, a JSON object, or any other JSON value
AdditionalData ==
    {[type |-> "null", d |-> EmptyDict], [type |-> "other", d |-> EmptyDict]} \cup
    {[type |-> "dict", d |-> f] :
        f \in UNION {{g \in [K -> UNION {AdditionalValues[k] : k \in K}] :
                          \A k \in K : g[k] \in AdditionalValues[k]} :
                     K \in SUBSET AdditionalKeys}}

\* OfferConfirmationRequest, lines 42-48: the payloads checked
Payloads ==
    [first_name : {Null, "Ann"}, last_name : {Null, " "},
     email : {Null, " ", " a@b.c "}, payment_type : {Null, "", "crypto"},
     additional_data : AdditionalData]

\* f"unknown+{int(datetime.now().timestamp())}@invalid.local"
PlaceholderEmail == "unknown+<timestamp>@invalid.local"

\* lines 115-126 and 154-155: the payment type handed to persistence
CoercePayment(req) ==
    LET given == Strip(OrEmpty(req.payment_type))
        d     == req.additional_data.d
        fromAdditional ==
            IF given # "" \/ req.additional_data.type # "dict" THEN given
            ELSE IF Get(d, "payment_type") # "" THEN Strip(Get(d, "payment_type"))
            ELSE IF Get(d, "tariff_id") # "" /\ Get(d, "currency") # ""
                 THEN "tariff_" \o Get(d, "tariff_id") \o "_" \o Get(d, "currency")
            ELSE given
    IN  IF fromAdditional = "" THEN "unknown" ELSE fromAdditional

\* lines 129-133: extra_additional
ExtraAdditional(req) ==
    CASE req.additional_data.type = "dict"  -> req.additional_data.d
      [] req.additional_data.type = "other" -> [k \in {"raw_additional_data"} |-> "raw"]
      [] OTHER                              -> EmptyDict

\* lines 114 and 136-142: the email before the placeholder is considered
GivenEmail(req) ==
    LET given == Strip(OrEmpty(req.email))
        extra == ExtraAdditional(req)
        candidate == IF Get(extra, "email") # "" THEN Get(extra, "email")
                     ELSE Get(extra, "user_email")
    IN  IF given = "" /\ DOMAIN extra # {} /\ candidate # ""
        THEN Strip(candidate)
        ELSE given

\* mutant of CoerceEmail: no placeholder, the empty email is kept
CoerceEmailNoPlaceholder(req) == GivenEmail(req)

\* lines 144-147: the email handed to persistence
CoerceEmail(req) ==
    IF GivenEmail(req) = "" THEN PlaceholderEmail ELSE GivenEmail(req)

\* the em dash passed for an empty name, lines 177-178
NameDash == "-"

\* lines 112-184: the arguments of save_offer_confirmation
Coerce(req) ==
    LET first == Strip(OrEmpty(req.first_name))
        last  == Strip(OrEmpty(req.last_name))
        extra == IF GivenEmail(req) = ""
                 THEN Put(ExtraAdditional(req), "missing_email", "True")
                 ELSE ExtraAdditional(req)
    IN  [first_name   |-> IF first = "" THEN NameDash ELSE first,
         last_name    |-> IF last = "" THEN NameDash ELSE last,
         email        |-> CoerceEmail(req),
         payment_type |-> CoercePayment(req),
         additional   |-> SetDefault(extra, "payment_type", CoercePayment(req))]

NoPayload ==
    [first_name |-> Null, last_name |-> Null, email |-> Null, payment_type |-> Null,
     additional_data |-> [type |-> "null", d |-> EmptyDict]]

NoResponse == [status |-> 0, success |-> FALSE, confirmation_id |-> 0]

\* the value of "return confirmation.confirmation_id", queries.py line 65
SaveResult(id) == [type |-> "int", id |-> id]

\* "confirmation_id, is_duplicate = ..." (api_server.py line 176) needs an
\* iterable of two items
Unpacks(v) == v.type = "tuple"

Adapters == << "sheets", "email", "webhook" >>

\* an adapter returns True, returns False, or raises
AdapterOutcomes == {"true", "false", "raise"}

\* lines 199-253: each adapter is called once inside its own try/except
FanOut(outcome) ==
    [k \in 1 .. Len(Adapters) |-> [name |-> Adapters[k], outcome |-> outcome[Adapters[k]]]]

\* no request in progress
\*   nextId : the next autoincrement confirmation_id
\*   saved  : id of the row committed for the request, 0 if none
NoRequest ==
    [pc |-> "idle", nextId |-> 1, req |-> NoPayload, rec |-> Coerce(NoPayload),
     saved |-> 0, ret |-> SaveResult(0), adapters |-> << >>, error |-> "",
     response |-> NoResponse]

\* no full-list run started, no start_sending handler beside the first
NoFull == [started |-> 0, others |-> 0]

\* the conversation of the admin bot with a user outside ADMIN_IDS: its FSM
\* state, the last update handled, whether start_sending ran in it
NoGuest == [fsm |-> "none", last |-> "", started |-> FALSE]

\* the clients table is empty and no /start update has arrived; h maps each
\* update to the position of its handler and the sender's id
NoStart == [pc |-> "none", user_id |-> 0]
NoStore == [rows |-> << >>, h |-> [k \in 1 .. MaxStarts |-> NoStart]]

\* no concurrent run: the semaphore of capacity c with every permit free,
\* and for each run its position and the permits it holds
NoRun == [pc |-> "none", holds |-> 0]
SemOf(c) == [cap |-> c, permits |-> c, runs |-> [r \in 1 .. MaxRuns |-> NoRun]]
NoSem == SemOf(CONCURRENCY_LIMIT)

\* ---------------------------------------------------------------- Init
\* no run of universal_broadcast yet
InitRun ==
    /\ pc = "idle"
    /\ content = None
    /\ user_ids = << >>
    /\ another_bot = FALSE
    /\ chunk_size = DEFAULT_CHUNK_SIZE
    /\ reply_markup = None
    /\ stats = NewStats(<< >>)
    /\ msg_id = None
    /\ i = 0
    /\ status = << >>
    /\ tasks = << >>
    /\ calls = << >>
    /\ permits = CONCURRENCY_LIMIT
    /\ semAcquires = 0
    /\ relayCalls = 0
    /\ relaySends = 0
    /\ relayError = ""
    /\ sleeps = << >>
    /\ chunks = << >>
    /\ caller = "none"

\* no conversation with the operator yet
InitComposer ==
    /\ fsm = "none"
    /\ data = EmptyData
    /\ update = NoUpdate
    /\ reply = NoReply
    /\ full = NoFull

\* nothing has happened beside the composer and its runs
InitSide ==
    /\ http = NoRequest
    /\ guest = NoGuest
    /\ store = NoStore
    /\ sem = NoSem

Init ==
    /\ InitRun
    /\ InitComposer
    /\ InitSide

\* ------------------------------------------------------------- actions
\* universal_broadcast(send_bot, c, ids, reply_markup=rm, another_bot=ab,
\* chunk_size=cs) is called: lines 77-91
Enter(c, ids, ab, cs, rm) ==
    /\ pc = "idle"
    /\ content' = c
    /\ user_ids' = ids
    /\ another_bot' = ab
    /\ chunk_size' = cs
    /\ reply_markup' = rm
    /\ stats' = NewStats(ids)
    /\ msg_id' = None
    /\ i' = 0
    /\ status' = [p \in 1 .. Len(ids) |-> "none"]
    /\ tasks' = [p \in 1 .. Len(ids) |-> 0]
    /\ calls' = [p \in 1 .. Len(ids) |-> << >>]
    /\ IF NeedsRelay(c, ab)
       THEN /\ pc' = "relay_enter"
            /\ relayCalls' = relayCalls + 1
       ELSE /\ pc' = "gate"
            /\ UNCHANGED relayCalls
    /\ UNCHANGED << permits, semAcquires, relaySends, relayError, sleeps, chunks >>

Call ==
    /\ pc = "idle"
    /\ caller = "none"
    /\ \E c \in Contents, ids \in RecipientLists, ab \in BOOLEAN,
          cs \in ChunkSizes, rm \in Markups :
           Enter(c, ids, ab, cs, rm)
    /\ caller' = "api"
    /\ UNCHANGED << composer, side >>

\* mutant of RelayReturn: the relay returns without leaving its "async with"
RelayReturnKeepsPermit(r) ==
    /\ msg_id' = r
    /\ permits' = permits
    /\ pc' = "relay_ret"

\* the relay returns r (a Message or None): the permit is released by
\* "async with"
RelayReturn(r) ==
    /\ msg_id' = r
    /\ permits' = permits + 1
    /\ pc' = "relay_ret"

\* mutant of RelayCatches: the relay has no except clause
RelayCatchesNothing(e) == FALSE

\* mutant of RelayCatches: only the platform's exceptions are caught
RelayCatchesPlatformOnly(e) == e \in PlatformErrors

\* "except Exception as e" of forward_message_with_entities, line 331
RelayCatches(e) == e \in PlatformErrors \cup {"UnboundLocalError", "ValueError"}

\* an exception named e is raised inside the relay's "async with": the
\* permit is released, the except clause returns None
RelayRaise(e) ==
    /\ relayError' = e
    /\ IF RelayCatches(e)
       THEN RelayReturn(None)
       ELSE /\ permits' = permits + 1
            /\ pc' = "raised"
            /\ UNCHANGED msg_id

\* the kinds the relay has a branch for
RelayKinds == {"text", "photo", "video", "document", "voice", "video_note"}

\* forward_message_with_entities, lines 225-329 up to the first await
RelayEnter ==
    /\ pc = "relay_enter"
    /\ permits > 0
    /\ semAcquires' = semAcquires + 1
    /\ IF content.kind = "text"
       THEN /\ pc' = "relay_send"
            /\ permits' = permits - 1
            /\ UNCHANGED msg_id
       ELSE IF content.caption \/ content.kind \in RelayKinds
       THEN /\ pc' = "relay_download"
            /\ permits' = permits - 1
            /\ UNCHANGED msg_id
       ELSE \* unsupported kind: warning, return None, no await in between
            /\ msg_id' = None
            /\ pc' = "relay_ret"
            /\ UNCHANGED permits
    /\ UNCHANGED << params, stats, i, status, tasks, calls, relayCalls, relaySends,
                    relayError, sleeps, chunks >>
    /\ UNCHANGED << caller, composer, side >>

\* get_file_from_message returns or raises, lines 242, 278, 308, 320
RelayDownload ==
    /\ pc = "relay_download"
    /\ \/ \E e \in PlatformErrors : RelayRaise(e)
       \/ IF content.caption /\ content.kind \notin {"photo", "video", "document"}
          THEN \* line 274: sent_msg is unbound
               RelayRaise("UnboundLocalError")
          ELSE /\ pc' = "relay_send"
               /\ UNCHANGED << msg_id, permits, relayError >>
    /\ UNCHANGED << params, stats, i, status, tasks, calls, semAcquires, relayCalls,
                    relaySends, sleeps, chunks >>
    /\ UNCHANGED << caller, composer, side >>

\* the relay's platform send returns sent_msg or raises
RelaySend ==
    /\ pc = "relay_send"
    /\ relaySends' = relaySends + 1
    /\ \/ RelayReturn(content) /\ UNCHANGED relayError
       \/ \E e \in PlatformErrors : RelayRaise(e)
    /\ UNCHANGED << params, stats, i, status, tasks, calls, semAcquires, relayCalls,
                    sleeps, chunks >>
    /\ UNCHANGED << caller, composer, side >>

\* lines 93-98: the absent handle ends the run, otherwise content = msg_id
AfterRelay ==
    /\ pc = "relay_ret"
    /\ IF RelayAbsent(msg_id)
       THEN /\ pc' = "done"
            /\ UNCHANGED content
       ELSE /\ pc' = "gate"
            /\ content' = msg_id
    /\ UNCHANGED << user_ids, another_bot, chunk_size, reply_markup, stats, msg_id, i,
                    status, tasks, calls, permits, semAcquires, relayCalls, relaySends, relayError,
                    sleeps, chunks >>
    /\ UNCHANGED << caller, composer, side >>

\* lines 101-102: "async with semaphore:" encloses only the definition of
\* send_to_user; the permit is taken and given back with no await between
Gate ==
    /\ pc = "gate"
    /\ permits > 0
    /\ semAcquires' = semAcquires + 1
    /\ pc' = "loop"
    /\ UNCHANGED << params, stats, msg_id, i, status, tasks, calls, permits, relayCalls,
                    relaySends, relayError, sleeps, chunks >>
    /\ UNCHANGED << caller, composer, side >>

\* one send_to_user task from its creation to its first suspension
TaskStart(st, p) ==
    LET d == Dispatch(content) IN
    IF d = "AttributeError" THEN Fail(st, "AttributeError")
    ELSE IF d = "nothing" THEN IncSuccess(st)
    ELSE st

RECURSIVE StartAll(_, _)
StartAll(st, ps) ==
    IF ps = {} THEN st
    ELSE LET p == CHOOSE q \in ps : \A r \in ps : q <= r
         IN  StartAll(TaskStart(st, p), ps \ {p})

\* lines 199-202: the loop takes the next chunk, creates its tasks and
\* gathers them; each task runs to its first await in creation order
StartChunk ==
    /\ pc = "loop"
    /\ LoopContinues(i, Len(user_ids), stats)
    /\ LET ps == ChunkPositions(i, Len(user_ids), chunk_size)
           d  == Dispatch(content)
       IN  /\ tasks' = [p \in DOMAIN tasks |-> IF p \in ps THEN tasks[p] + 1 ELSE tasks[p]]
           /\ chunks' = Append(chunks, ps)
           /\ stats' = StartAll(stats, ps)
           /\ status' = [p \in DOMAIN status |->
                           IF p \notin ps THEN status[p]
                           ELSE IF d = "AttributeError" THEN Failed("AttributeError")
                           ELSE IF d = "nothing" THEN "ok"
                           ELSE "inflight"]
           /\ calls' = [p \in DOMAIN calls |->
                           IF p \in ps /\ d \notin {"AttributeError", "nothing"}
                           THEN Append(calls[p], [method |-> d, to |-> user_ids[p],
                                                  markup |-> SendMarkup(d, reply_markup)])
                           ELSE calls[p]]
    /\ pc' = "gather"
    /\ UNCHANGED << params, msg_id, i, permits, semAcquires, relayCalls, relaySends, relayError,
                    sleeps >>
    /\ UNCHANGED << caller, composer, side >>

\* lines 189-196: the platform call of the task at position p returns
\* (success) or raises an exception named e
Settle(p, ok, e) ==
    /\ p \in InFlight
    /\ IF ok
       THEN /\ stats' = IncSuccess(stats)
            /\ status' = [status EXCEPT ![p] = "ok"]
       ELSE /\ stats' = Fail(stats, e)
            /\ status' = [status EXCEPT ![p] = Failed(e)]
    /\ UNCHANGED << pc, params, msg_id, i, tasks, calls, permits, semAcquires,
                    relayCalls, relaySends, relayError, sleeps, chunks >>
    /\ UNCHANGED << caller, composer, side >>

SendReturns == \E p \in InFlight : Settle(p, TRUE, "")

SendRaises == \E p \in InFlight, e \in PlatformErrors : Settle(p, FALSE, e)

\* lines 202-203: gather(return_exceptions=True) returns once every task of
\* the chunk is done; then the run sleeps
Gathered ==
    /\ pc = "gather"
    /\ GatherDone(status, chunks[Len(chunks)])
    /\ IF GatherPropagates(\E p \in DOMAIN status : status[p] = "raised")
       THEN /\ pc' = "raised"
            /\ UNCHANGED sleeps
       ELSE /\ sleeps' = Append(sleeps, SleepDuration(chunk_size))
            /\ pc' = "sleep"
    /\ UNCHANGED << params, stats, msg_id, i, status, tasks, calls, permits,
                    semAcquires, relayCalls, relaySends, relayError, chunks >>
    /\ UNCHANGED << caller, composer, side >>

\* the sleep is over: next value of the loop variable
Wake ==
    /\ pc = "sleep"
    /\ i' = i + chunk_size
    /\ pc' = "loop"
    /\ UNCHANGED << params, stats, msg_id, status, tasks, calls, permits, semAcquires,
                    relayCalls, relaySends, relayError, sleeps, chunks >>
    /\ UNCHANGED << caller, composer, side >>

\* line 205: the range is exhausted, return stats
Return ==
    /\ pc = "loop"
    /\ ~LoopContinues(i, Len(user_ids), stats)
    /\ pc' = "done"
    /\ UNCHANGED << params, stats, msg_id, i, status, tasks, calls, permits, semAcquires,
                    relayCalls, relaySends, relayError, sleeps, chunks >>
    /\ UNCHANGED << caller, composer, side >>

\* the run has returned: its locals are gone
ResetRun ==
    /\ pc' = "idle"
    /\ content' = None
    /\ user_ids' = << >>
    /\ another_bot' = FALSE
    /\ chunk_size' = DEFAULT_CHUNK_SIZE
    /\ reply_markup' = None
    /\ stats' = NewStats(<< >>)
    /\ msg_id' = None
    /\ i' = 0
    /\ status' = << >>
    /\ tasks' = << >>
    /\ calls' = << >>
    /\ semAcquires' = 0
    /\ relayCalls' = 0
    /\ relaySends' = 0
    /\ relayError' = ""
    /\ sleeps' = << >>
    /\ chunks' = << >>
    /\ caller' = "none"
    /\ UNCHANGED permits

\* a direct caller of universal_broadcast has the result
NewRun ==
    /\ pc \in {"done", "raised"}
    /\ caller = "api"
    /\ ResetRun
    /\ UNCHANGED << composer, side >>

\* --------------------------------------------------- composer handlers
\* An update is handled when no handler is waiting for a broadcast run: the
\* operator sends the next one after the answer to the last.
Quiet == pc = "idle" /\ caller = "none" /\ full.others = 0

Handled(kind, what, text) == [kind |-> kind, what |-> what, text |-> text, at |-> fsm]

Answer(key) == [key |-> key, n |-> 0, before |-> ""]

runLocals == << content, user_ids, another_bot, chunk_size, reply_markup, stats,
                msg_id, i, status, tasks, calls, semAcquires, relayCalls,
                relaySends, relayError, sleeps, chunks >>

\* the state filter of a handler registration, e.g. Sending.confirmation
StateFilter(required) == fsm = required

\* mutant of ConfirmationFilter: start_sending is registered without its
\* state
ConfirmationFilterMissing == TRUE

\* @admin_router.callback_query(F.data == "start_sending",
\* Sending.confirmation), line 261
ConfirmationFilter == StateFilter("confirmation")

\* start_handler, lines 44-51 (an operator in ADMIN_IDS)
StartCmd ==
    /\ UNCHANGED << side, full >>
    /\ Quiet
    /\ update' = Handled("message", "/start", NoText)
    /\ fsm' = "none"
    /\ data' = EmptyData
    /\ reply' = Answer("welcome")
    /\ UNCHANGED << pc, runLocals, permits, caller >>

\* start_collecting_messages, lines 54-62: registered without a state
\* filter and before the state handlers; the FSM data is not cleared
CreateCmd ==
    /\ UNCHANGED << side, full >>
    /\ Quiet
    /\ update' = Handled("message", "create", NoText)
    /\ fsm' = "wait_materials"
    /\ reply' = Answer("send_material")
    /\ UNCHANGED << pc, runLocals, permits, caller, data >>

\* handel_message_to_sent, lines 64-84, for a message m whose
\* media_group_id is set (grouped) or not: line 68 answers for a media group
\* and goes on, and the message is stored whatever it is
HandleMaterial(m, grouped) ==
    /\ update' = Handled("message", IF grouped THEN "media_group" ELSE "material", NoText)
    /\ data' = [data EXCEPT !.message = m]
    /\ fsm' = "need_button"
    /\ reply' = [Answer("ask_button") EXCEPT
                    !.before = IF grouped THEN "unsupported_type" ELSE ""]

MaterialMessage ==
    /\ UNCHANGED << side, full >>
    /\ Quiet
    /\ StateFilter("wait_materials")
    /\ \E m \in Messages, grouped \in BOOLEAN : HandleMaterial(m, grouped)
    /\ UNCHANGED << pc, runLocals, permits, caller >>

\* need_button_handler ("without_button"), lines 86-103, up to the await of
\* the preview run
WithoutButton ==
    /\ UNCHANGED side
    /\ Quiet
    /\ StateFilter("need_button")
    /\ update' = Handled("callback", "without_button", NoText)
    /\ fsm' = "confirmation"
    /\ reply' = Answer("check_message")
    /\ Enter(data.message, << Operator >>, FALSE, DEFAULT_CHUNK_SIZE, None)
    /\ caller' = "preview"
    /\ full' = [full EXCEPT !.started = 0]
    /\ UNCHANGED data

\* need_button_handler ("need_button"), lines 114-121
NeedButton ==
    /\ UNCHANGED << side, full >>
    /\ Quiet
    /\ StateFilter("need_button")
    /\ update' = Handled("callback", "need_button", NoText)
    /\ fsm' = "wait_button_link"
    /\ reply' = Answer("ask_link")
    /\ UNCHANGED << pc, runLocals, permits, caller, data >>

\* handle_button_link, lines 123-198, for a message with text t
HandleButtonLink(t) ==
    /\ UNCHANGED << side, full >>
    /\ Quiet
    /\ StateFilter("wait_button_link")
    /\ update' = Handled("message", "link", t)
    /\ LET o == LinkOutcome(t) IN
       IF o = "ok"
       THEN /\ data' = [data EXCEPT !.button_link = t]
            /\ fsm' = "wait_button_text"
            /\ reply' = Answer("link_ok")
       ELSE /\ reply' = Answer(IF o = "error" THEN "link_error" ELSE "bad_link_format")
            /\ UNCHANGED << fsm, data >>
    /\ UNCHANGED << pc, runLocals, permits, caller >>

LinkMessage == \E t \in ComposerLinks : HandleButtonLink(t)

\* handle_button_text, lines 200-250, up to the await of the preview run;
\* l = None stands for a message without text
HandleButtonText(l) ==
    /\ UNCHANGED side
    /\ Quiet
    /\ StateFilter("wait_button_text")
    /\ update' = Handled("message", "label", IF l = None THEN NoText ELSE << l >>)
    /\ IF l = None
       THEN /\ reply' = Answer("bad_label_format")
            /\ UNCHANGED << pc, runLocals, permits, caller, fsm, data, full >>
       ELSE \* line 222 answers for an invalid text and goes on
            /\ fsm' = "confirmation"
            /\ data' = [data EXCEPT !.button_text = l]
            /\ reply' = [Answer("check_message") EXCEPT
                            !.before = IF IsValidButtonText(l) THEN "" ELSE "label_error"]
            /\ Enter(data.message, << Operator >>, FALSE, DEFAULT_CHUNK_SIZE,
                     UrlKeyboard(l, data.button_link))
            /\ caller' = "preview"
            /\ full' = [full EXCEPT !.started = 0]

LabelMessage == \E l \in Labels \cup {None} : HandleButtonText(l)

\* need_button_handler / handle_button_text after the preview run: the
\* confirmation keyboard is sent
PreviewDone ==
    /\ UNCHANGED << side, full >>
    /\ caller = "preview"
    /\ pc = "done"
    /\ ResetRun
    /\ reply' = Answer("confirm_prompt")
    /\ UNCHANGED << fsm, data, update >>

\* start_sending, lines 261-301, up to the await of the run; ids is the
\* result of get_all_user_ids()
StartSendingTo(ids) ==
    /\ UNCHANGED side
    /\ Quiet
    /\ ConfirmationFilter
    /\ update' = Handled("callback", "start_sending", NoText)
    /\ Enter(data.message, ids, TRUE, DEFAULT_CHUNK_SIZE,
             IF data.button_text # None /\ data.button_link # NoText
             THEN UrlKeyboard(data.button_text, data.button_link)
             ELSE None)
    /\ caller' = "start_sending"
    /\ full' = [full EXCEPT !.started = @ + 1]
    /\ UNCHANGED << fsm, data, reply >>

StartSending == \E ids \in ClientLists : StartSendingTo(ids)

\* start_sending, lines 302-304: the count is reported, state.clear()
SendingDone ==
    /\ UNCHANGED side
    /\ caller = "start_sending"
    /\ pc = "done"
    /\ reply' = [key |-> "finished", n |-> stats.success, before |-> ""]
    /\ fsm' = "none"
    /\ data' = EmptyData
    /\ full' = [full EXCEPT !.started = 0]
    /\ ResetRun
    /\ UNCHANGED update

\* mutant of CancelFilter: cancel is registered for the confirmation state
CancelFilterConfirmationOnly == StateFilter("confirmation")

\* @admin_router.callback_query(F.data == "cancel_sending"), line 315: no
\* state filter
CancelFilter == TRUE

\* cancel_new_word, lines 315-322
Cancel ==
    /\ UNCHANGED << side, full >>
    /\ Quiet
    /\ CancelFilter
    /\ update' = Handled("callback", "cancel_sending", NoText)
    /\ fsm' = "none"
    /\ data' = EmptyData
    /\ reply' = Answer("cancelled")
    /\ UNCHANGED << pc, runLocals, permits, caller >>

Next ==
    \/ Call
    \/ RelayEnter
    \/ RelayDownload
    \/ RelaySend
    \/ AfterRelay
    \/ Gate
    \/ StartChunk
    \/ SendReturns
    \/ SendRaises
    \/ Gathered
    \/ Wake
    \/ Return
    \/ NewRun

Spec == Init /\ [][Next]_vars

\* ---------------------------------------------------------------------
\* The same run with a recipient list longer than CONCURRENCY_LIMIT and the
\* default chunk_size.  To keep the long list tractable the platform is
\* restricted to answer the sends in list order, the rejected recipients
\* first: every behaviour of SpecFifo is a behaviour of the program.
CallLong ==
    /\ pc = "idle"
    /\ caller = "none"
    /\ \E c \in Contents, ab \in BOOLEAN, rm \in Markups :
           Enter(c, LongList, ab, DEFAULT_CHUNK_SIZE, rm)
    /\ caller' = "api"
    /\ UNCHANGED << composer, side >>

FirstInFlight == CHOOSE p \in InFlight : \A q \in InFlight : p <= q

SendReturnsFifo ==
    /\ InFlight # {}
    /\ Settle(FirstInFlight, TRUE, "")

SendRaisesFifo ==
    /\ InFlight # {}
    /\ stats.success = 0
    /\ Settle(FirstInFlight, FALSE, "TelegramForbiddenError")

NextFifo ==
    \/ CallLong
    \/ RelayEnter
    \/ RelayDownload
    \/ RelaySend
    \/ AfterRelay
    \/ Gate
    \/ StartChunk
    \/ SendReturnsFifo
    \/ SendRaisesFifo
    \/ Gathered
    \/ Wake
    \/ Return
    \/ NewRun

SpecFifo == Init /\ [][NextFifo]_vars

\* ---------------------------------------------------------------------
\* The composer workflow of one operator, with the runs its handlers start
NextComposer ==
    \/ StartCmd
    \/ CreateCmd
    \/ MaterialMessage
    \/ WithoutButton
    \/ NeedButton
    \/ LinkMessage
    \/ LabelMessage
    \/ PreviewDone
    \/ StartSending
    \/ SendingDone
    \/ Cancel
    \/ RelayEnter
    \/ RelayDownload
    \/ RelaySend
    \/ AfterRelay
    \/ Gate
    \/ StartChunk
    \/ SendReturns
    \/ SendRaises
    \/ Gathered
    \/ Wake
    \/ Return

SpecComposer == Init /\ [][NextComposer]_vars

\* a step of the run in progress: the event loop resumes every coroutine
\* that can go on, and every awaited platform call returns or raises
RunStep ==
    \/ RelayEnter
    \/ RelayDownload
    \/ RelaySend
    \/ AfterRelay
    \/ Gate
    \/ StartChunk
    \/ SendReturns
    \/ SendRaises
    \/ Gathered
    \/ Wake
    \/ Return

\* direct runs with the scheduling of the asyncio event loop: a step of the
\* run that can be taken is taken, which includes every awaited platform
\* call returning or raising
SpecFair == Spec /\ WF_vars(RunStep)

\* the composer workflow with the scheduling of the asyncio event loop: a
\* run in progress goes on, and a handler awaiting a finished run resumes
SpecComposerFair ==
    /\ SpecComposer
    /\ WF_vars(RunStep)
    /\ WF_vars(PreviewDone)
    /\ WF_vars(SendingDone)

\* ---------------------------------------------------------------------
\* Updates of the operator that arrive while a handler awaits its run.  The
\* dispatcher handles every update in a task of its own (main.py, lines
\* 18-28), so a callback is filtered and handled while start_sending or the
\* preview is suspended in universal_broadcast; the FSM state is cleared only
\* after the run (line 304).

\* mutant of RunAfterCancel: cancelling the composition cancels the run
RunCancelled(p) == "raised"

\* the position of the run in progress after cancel_new_word: lines 315-322
\* hold no reference to the run or its tasks
RunAfterCancel(p) == p

\* cancel_new_word, lines 315-322, while start_sending awaits its run
CancelDuringRun ==
    /\ UNCHANGED << side, full >>
    /\ caller = "start_sending"
    /\ CancelFilter
    /\ update' = Handled("callback", "cancel_sending", NoText)
    /\ fsm' = "none"
    /\ data' = EmptyData
    /\ reply' = Answer("cancelled")
    /\ pc' = RunAfterCancel(pc)
    /\ UNCHANGED << runLocals, permits, caller >>

\* what callback.message.delete() of line 266 can answer when another
\* handler may have deleted the prompt
DeleteOutcomes == {"deleted", "TelegramBadRequest"}

\* start_sending, lines 261-301, for a second callback while the first
\* start_sending awaits its run: the filter is Sending.confirmation, which
\* still holds.  The run this handler starts is counted; its sends are not
\* followed.
StartSendingAgain(o) ==
    /\ UNCHANGED side
    /\ caller = "start_sending"
    /\ ConfirmationFilter
    /\ full.started = 1
    /\ update' = Handled("callback", "start_sending", NoText)
    /\ full' = IF o = "deleted"
               THEN [started |-> full.started + 1, others |-> full.others + 1]
               ELSE full
    /\ UNCHANGED << pc, runLocals, permits, caller, fsm, data, reply >>

SecondStartSending == \E o \in DeleteOutcomes : StartSendingAgain(o)

\* start_sending, lines 302-304, of a handler started beside the first: its
\* run has returned with n successes
OtherSendingDone ==
    /\ UNCHANGED side
    /\ full.others > 0
    /\ \E n \in 0 .. MaxClients :
           reply' = [key |-> "finished", n |-> n, before |-> ""]
    /\ fsm' = "none"
    /\ data' = EmptyData
    /\ full' = [full EXCEPT !.others = @ - 1]
    /\ UNCHANGED << pc, runLocals, permits, caller, update >>

NextCancel ==
    \/ NextComposer
    \/ CancelDuringRun

\* the composer with a cancel during the broadcast, under the scheduling of
\* the event loop
SpecCancel ==
    /\ Init
    /\ [][NextCancel]_vars
    /\ WF_vars(RunStep)
    /\ WF_vars(PreviewDone)
    /\ WF_vars(SendingDone)

NextSecond ==
    \/ NextComposer
    \/ SecondStartSending
    \/ OtherSendingDone

\* the composer with a second confirmation callback during the broadcast
SpecSecond == Init /\ [][NextSecond]_vars

\* ---------------------------------------------------------------------
\* The admin bot talking to a user outside ADMIN_IDS.  The FSM state is kept
\* per user and chat, so this conversation has a state of its own.
Outsiders == {901}
Guest == CHOOSE u \in Outsiders : TRUE

\* what a user can send to the admin bot: the /start command, the text of
\* the create button, a text that is a valid link, another text, a message
\* without text, and the callback data of every inline button
GuestMessages == {"/start", "create", "link_text", "plain_text", "media"}
GuestCallbacks == {"without_button", "need_button", "start_sending", "cancel_sending"}
GuestUpdates == GuestMessages \cup GuestCallbacks

\* mutant of IsAdmin: the handlers do not look at the sender
IsAdminAnyone(id) == TRUE

\* "message.from_user.id not in ADMIN_IDS", lines 46 and 57, negated
IsAdmin(id) == id \in AdminIds

\* the FSM state of user id in state st after the update u is dispatched:
\* the first registered handler whose filters match is run, in the order of
\* registration (lines 44, 54, 64, 86, 114, 123, 200, 261, 315)
StateAfter(id, st, u) ==
    IF u = "/start" THEN (IF IsAdmin(id) THEN "none" ELSE st)
    ELSE IF u = "create" THEN (IF IsAdmin(id) THEN "wait_materials" ELSE st)
    ELSE IF u \in GuestMessages /\ st = "wait_materials" THEN "need_button"
    ELSE IF u = "without_button" /\ st = "need_button" THEN "confirmation"
    ELSE IF u = "need_button" /\ st = "need_button" THEN "wait_button_link"
    ELSE IF u \in GuestMessages /\ st = "wait_button_link"
         THEN (IF u = "link_text" THEN "wait_button_text" ELSE st)
    ELSE IF u \in GuestMessages /\ st = "wait_button_text"
         THEN (IF u = "media" THEN st ELSE "confirmation")
    ELSE IF u = "start_sending" /\ st = "confirmation" THEN "none"
    ELSE IF u = "cancel_sending" THEN "none"
    ELSE st

\* start_sending runs for the update u of a user in state st
StartsBroadcast(st, u) == u = "start_sending" /\ st = "confirmation"

\* an update of the outsider is dispatched by the admin bot
GuestUpdate ==
    /\ \E u \in GuestUpdates :
           guest' = [fsm |-> StateAfter(Guest, guest.fsm, u),
                     last |-> u,
                     started |-> guest.started \/ StartsBroadcast(guest.fsm, u)]
    /\ UNCHANGED << pc, runLocals, permits, caller, composer, http, store, sem >>

NextGuest ==
    \/ GuestUpdate
    \/ StartCmd
    \/ CreateCmd
    \/ MaterialMessage
    \/ NeedButton
    \/ LinkMessage
    \/ Cancel

\* the operator composing up to the label while the outsider sends updates
SpecGuest == Init /\ [][NextGuest]_vars

\* ---------------------------------------------------------------------
\* Registration by the user bot, handlers/user_bot_handler.py lines 19-37
\* and database/queries.py lines 10-37.  Each /start update is handled in a
\* task of its own; is_user and add_new_user open a session each and await
\* the select and the commit.  Clients.user_id has no unique constraint
\* (database/models.py), so the table is a list of rows.

\* select(Clients).where(Clients.user_id == u) ... first() finds a row
Existing(rows, u) == \E k \in 1 .. Len(rows) : rows[k] = u

\* session.add(user); await session.commit()
Insert(rows, u) == Append(rows, u)

\* get_all_user_ids: select(Clients.user_id), every row
AllUserIds == store.rows

NotStore == << pc, runLocals, permits, caller, composer, http, guest, sem >>

\* a /start update of user u arrives: start_handler calls is_user
StartUpdate ==
    /\ UNCHANGED NotStore
    /\ \E k \in 1 .. MaxStarts, u \in UserIds :
          /\ store.h[k].pc = "none"
          /\ store' = [store EXCEPT !.h[k] = [pc |-> "is_user", user_id |-> u]]

\* is_user returns: False leads to add_new_user, line 26
IsUser ==
    /\ UNCHANGED NotStore
    /\ \E k \in 1 .. MaxStarts :
          /\ store.h[k].pc = "is_user"
          /\ store' = [store EXCEPT !.h[k].pc =
                          IF Existing(store.rows, store.h[k].user_id)
                          THEN "done" ELSE "add_select"]

\* add_new_user, lines 13-16: the select returns
AddSelect ==
    /\ UNCHANGED NotStore
    /\ \E k \in 1 .. MaxStarts :
          /\ store.h[k].pc = "add_select"
          /\ store' = [store EXCEPT !.h[k].pc =
                          IF Existing(store.rows, store.h[k].user_id)
                          THEN "done" ELSE "add_commit"]

\* add_new_user, lines 18-22: the row is added and committed
AddCommit ==
    /\ UNCHANGED NotStore
    /\ \E k \in 1 .. MaxStarts :
          /\ store.h[k].pc = "add_commit"
          /\ store' = [store EXCEPT !.rows = Insert(store.rows, store.h[k].user_id),
                                    !.h[k].pc = "done"]

NextRegister ==
    \/ StartUpdate
    \/ IsUser
    \/ AddSelect
    \/ AddCommit

SpecRegister == Init /\ [][NextRegister]_vars

\* ---------------------------------------------------------------------
\* Several calls of universal_broadcast at once (a preview, a broadcast and
\* a second broadcast can overlap), reduced to their use of the module-level
\* semaphore of sending.py line 14, for the capacity of the code and for
\* small ones.
Capacities == (1 .. MaxCap) \cup {CONCURRENCY_LIMIT}

\* the positions at which a run waits in "async with semaphore"
Waits == {"relay_wait", "gate_wait"}

\* mutant of HeldAfterRelay: the relay's permit is kept until the run ends
HeldAfterRelayKept(h) == h

\* permits a run holds when forward_message_with_entities has returned:
\* "async with semaphore" of line 226 encloses the whole body
HeldAfterRelay(h) == 0

SemRun(r, p, h, free) ==
    sem' = [sem EXCEPT !.runs[r] = [pc |-> p, holds |-> h], !.permits = free]

NotSem == << pc, runLocals, permits, caller, composer, http, guest, store >>

\* universal_broadcast is called: with a Message and another_bot the relay
\* comes first (line 86), otherwise line 101
SemEnter ==
    /\ UNCHANGED NotSem
    /\ \E r \in 1 .. MaxRuns, relay \in BOOLEAN :
          /\ sem.runs[r].pc = "none"
          /\ SemRun(r, IF relay THEN "relay_wait" ELSE "gate_wait", 0, sem.permits)

\* line 226: the relay enters its block with a permit
SemRelayAcquire ==
    /\ UNCHANGED NotSem
    /\ \E r \in 1 .. MaxRuns :
          /\ sem.runs[r].pc = "relay_wait"
          /\ sem.permits > 0
          /\ SemRun(r, "relay_block", sem.runs[r].holds + 1, sem.permits - 1)

\* the relay returns a handle (on to line 101) or None (return of line 96)
SemRelayRelease ==
    /\ UNCHANGED NotSem
    /\ \E r \in 1 .. MaxRuns, handle \in BOOLEAN :
          /\ sem.runs[r].pc = "relay_block"
          /\ LET h == HeldAfterRelay(sem.runs[r].holds) IN
             IF handle
             THEN SemRun(r, "gate_wait", h, sem.permits + sem.runs[r].holds - h)
             ELSE SemRun(r, "done", 0, sem.permits + sem.runs[r].holds)

\* lines 101-102: a permit is taken and given back around the definition of
\* send_to_user
SemGate ==
    /\ UNCHANGED NotSem
    /\ \E r \in 1 .. MaxRuns :
          /\ sem.runs[r].pc = "gate_wait"
          /\ sem.permits > 0
          /\ SemRun(r, "sending", sem.runs[r].holds, sem.permits)

\* lines 199-205: the chunks are sent and the run returns
SemReturn ==
    /\ UNCHANGED NotSem
    /\ \E r \in 1 .. MaxRuns :
          /\ sem.runs[r].pc = "sending"
          /\ SemRun(r, "done", 0, sem.permits + sem.runs[r].holds)

\* the caller has the result
SemForget ==
    /\ UNCHANGED NotSem
    /\ \E r \in 1 .. MaxRuns :
          /\ sem.runs[r].pc = "done"
          /\ SemRun(r, "none", 0, sem.permits)

InitSem ==
    /\ InitRun
    /\ InitComposer
    /\ http = NoRequest
    /\ guest = NoGuest
    /\ store = NoStore
    /\ \E c \in Capacities : sem = SemOf(c)

NextSem ==
    \/ SemEnter
    \/ SemRelayAcquire
    \/ SemRelayRelease
    \/ SemGate
    \/ SemReturn
    \/ SemForget

SpecSem == InitSem /\ [][NextSem]_vars

\* ---------------------------------------------------------------------
\* handle_button_link on every link text of UrlInputs: the conversation is
\* in wait_button_link with a text message as material, and one message of
\* the operator is queued at the dispatcher
Queued(t) == [kind |-> "message", what |-> "link", text |-> t, at |-> "queue"]

InitUrl ==
    /\ InitRun
    /\ fsm = "wait_button_link"
    /\ data = [EmptyData EXCEPT !.message = [type |-> "msg", kind |-> "text", caption |-> FALSE]]
    /\ \E t \in UrlInputs : update = Queued(t)
    /\ reply = NoReply
    /\ full = NoFull
    /\ InitSide

HandleQueued ==
    /\ update.at = "queue"
    /\ HandleButtonLink(update.text)

NextUrl == HandleQueued

SpecUrl == InitUrl /\ [][NextUrl]_vars

\* ---------------------------------------------------------------------
\* POST /api/offer-confirmation
broadcast == << pc, content, user_ids, another_bot, chunk_size, reply_markup,
                stats, msg_id, i, status, tasks, calls, permits, semAcquires,
                relayCalls, relaySends, relayError, sleeps, chunks, caller,
                fsm, data, update, reply, full, guest, store, sem >>

\* confirm_offer, lines 92-184: the payload is coerced and
\* save_offer_confirmation is awaited
ApiRequest ==
    /\ http.pc = "idle"
    /\ http.nextId <= MaxLeads
    /\ \E req \in Payloads :
          http' = [http EXCEPT !.pc = "save", !.req = req, !.rec = Coerce(req),
                               !.saved = 0, !.adapters = << >>, !.error = "",
                               !.response = NoResponse]
    /\ UNCHANGED broadcast

\* "except Exception", lines 263-268
ServerError == [status |-> 500, success |-> FALSE, confirmation_id |-> 0]

\* OfferConfirmationResponse(success=True, confirmation_id=...)
Success(id) == [status |-> 200, success |-> TRUE, confirmation_id |-> id]

\* session.commit() raises in save_offer_confirmation: no row, HTTP 500
ApiSaveRaises ==
    /\ http.pc = "save"
    /\ http' = [http EXCEPT !.pc = "responded", !.error = "SQLAlchemyError",
                            !.response = ServerError]
    /\ UNCHANGED broadcast

\* save_offer_confirmation commits the row and returns; lines 176-268 of
\* confirm_offer follow
ApiSaveReturns ==
    /\ http.pc = "save"
    /\ LET id  == http.nextId
           ret == SaveResult(id)
           h   == [http EXCEPT !.pc = "responded", !.nextId = id + 1,
                               !.saved = id, !.ret = ret]
       IN  IF ~Unpacks(ret)
           THEN http' = [h EXCEPT !.error = "TypeError", !.response = ServerError]
           ELSE IF ret.is_duplicate
           THEN http' = [h EXCEPT !.response = Success(ret.id)]
           ELSE \E outcome \in [{"sheets", "email", "webhook"} -> AdapterOutcomes] :
                   http' = [h EXCEPT !.adapters = FanOut(outcome),
                                     !.response = Success(ret.id)]
    /\ UNCHANGED broadcast

\* the response has been sent: the handler's locals are gone, the rows stay
ApiResponded ==
    /\ http.pc = "responded"
    /\ http' = [NoRequest EXCEPT !.nextId = http.nextId]
    /\ UNCHANGED broadcast

NextApi ==
    \/ ApiRequest
    \/ ApiSaveRaises
    \/ ApiSaveReturns
    \/ ApiResponded

SpecApi == Init /\ [][NextApi]_vars

\* =====================================================================
\* Properties
\* =====================================================================
\* the run was ended by an absent relay handle (lines 94-96)
Aborted == relayCalls > 0 /\ msg_id = None /\ pc \in {"relay_ret", "done"}

\* the run went through all its chunks and returned at line 205
Completed == pc = "done" /\ ~Aborted

Positions == 1 .. Len(user_ids)

CountStatus(v) == Cardinality({p \in DOMAIN status : status[p] = v})

CeilDiv(a, b) == (a + b - 1) \div b

\* C1: when universal_broadcast returns after processing all chunks (not
\* aborted by an absent relay handle), success + failed = total = n and every
\* list position has exactly one outcome.
C1_CompletedCountsAll ==
    Completed =>
        /\ stats.total = Len(user_ids)
        /\ stats.success + stats.failed = stats.total
        /\ \A p \in Positions : status[p] \in {"ok", "fail"}

C1_Witness ==
    /\ Completed
    /\ Len(user_ids) >= 2
    /\ stats.success >= 1
    /\ stats.failed >= 1

\* C2: at every moment the number of per-recipient platform send calls in
\* flight is at most CONCURRENCY_LIMIT.
C2_InFlightBounded == Cardinality(InFlight) <= CONCURRENCY_LIMIT

\* C3: if the relay returns an absent handle, the returned statistics are
\* all zero: total = 0, success = 0, failed = 0, errors empty.
C3_AbortReturnsZeros ==
    (pc = "done" /\ Aborted) =>
        /\ stats.total = 0
        /\ stats.success = 0
        /\ stats.failed = 0
        /\ stats.errors = EmptyErrors

\* C4: if the relay returns an absent handle, no send task is created for
\* any recipient, no platform send is issued and no chunk is started.
C4_AbortSendsNothing ==
    (relayCalls > 0 /\ msg_id = None /\ pc \notin {"relay_enter", "relay_download", "relay_send"}) =>
        /\ \A p \in Positions : tasks[p] = 0 /\ calls[p] = << >> /\ status[p] = "none"
        /\ chunks = << >>
        /\ sleeps = << >>

C4_Witness ==
    /\ pc = "done"
    /\ Aborted
    /\ Len(user_ids) >= 2

\* C5: with an empty recipient list universal_broadcast returns all-zero
\* statistics without invoking the relay and without acquiring the semaphore.
C5_EmptyListTouchesNothing ==
    (pc = "done" /\ Len(user_ids) = 0) =>
        /\ stats = NewStats(<< >>)
        /\ relayCalls = 0
        /\ semAcquires = 0

\* C6: a failed send never prevents the attempt for another recipient: in a
\* run that was not aborted every list position of a started chunk has its
\* send task, at the return every position had its task run to an outcome,
\* and no exception leaves universal_broadcast.
C6_FaultIsolation ==
    /\ pc # "raised"
    /\ \A p \in Positions : status[p] # "raised"
    /\ (pc \in {"gather", "sleep"} =>
            \A p \in Positions : p <= i + chunk_size => tasks[p] = 1)
    /\ (Completed =>
            \A p \in Positions : tasks[p] = 1 /\ status[p] \in {"ok", "fail"})

C6_Witness ==
    /\ Completed
    /\ Len(user_ids) = 3
    /\ chunk_size = 2
    /\ status[1] = "fail"
    /\ status[2] = "ok"
    /\ status[3] = "ok"
    /\ Len(calls[2]) = 1
    /\ Len(calls[3]) = 1

\* C7: at every point the values of errors sum to failed; a failed send
\* adds 1 to failed and 1 to the counter of its exception's type name and
\* changes nothing else of the statistics.
C7_ErrorsSumToFailed ==
    [][ /\ ErrorsSum(stats') = stats'.failed
        /\ (pc = "gather" /\ stats'.failed # stats.failed) =>
              /\ stats'.failed = stats.failed + 1
              /\ stats'.success = stats.success
              /\ stats'.total = stats.total
              /\ \E e \in DOMAIN stats'.errors :
                    /\ stats'.errors[e] =
                          (IF e \in DOMAIN stats.errors THEN stats.errors[e] ELSE 0) + 1
                    /\ DOMAIN stats'.errors = DOMAIN stats.errors \cup {e}
                    /\ \A f \in DOMAIN stats.errors \ {e} :
                          stats'.errors[f] = stats.errors[f]
      ]_vars

C7_Witness ==
    /\ stats.failed >= 2
    /\ Cardinality(DOMAIN stats.errors) = 2
    /\ stats.success >= 1

\* C8: under every interleaving of the send tasks no statistics update is
\* lost: success is the number of tasks that finished without exception and
\* failed the number that raised, at every point and so at the return.
C8_NoLostUpdate ==
    /\ stats.success = CountStatus("ok")
    /\ stats.failed = CountStatus("fail")

\* the sends of one chunk answered out of list order
C8_Witness ==
    /\ pc = "gather"
    /\ Len(user_ids) >= 3
    /\ status[1] = "inflight"
    /\ status[2] = "ok"
    /\ status[3] = "fail"

\* C9: the list is cut into ceil(n / chunk_size) consecutive chunks in list
\* order, only the last may be shorter, and every list position gets exactly
\* one send task, so an id occurring k times gets k tasks and counts k times.
C9_ChunkPartition ==
    /\ \A k \in 1 .. Len(chunks) :
          chunks[k] = ((k - 1) * chunk_size + 1) .. Min(k * chunk_size, Len(user_ids))
    /\ \A p \in Positions : tasks[p] <= 1
    /\ Completed =>
          /\ Len(chunks) = CeilDiv(Len(user_ids), chunk_size)
          /\ \A p \in Positions : tasks[p] = 1
          /\ \A u \in UserIds :
                SumOver(tasks, {p \in Positions : user_ids[p] = u})
                   = Cardinality({p \in Positions : user_ids[p] = u})
          /\ stats.total = Len(user_ids)

C9_Witness ==
    /\ Completed
    /\ Len(user_ids) = 3
    /\ chunk_size = 2
    /\ user_ids[1] = user_ids[3]
    /\ Len(chunks) = 2
    /\ Cardinality(chunks[2]) = 1

\* C10: a run that processes k >= 1 chunks invokes the sleep exactly k - 1
\* times, each of throttle_delay * chunk_size seconds.
C10_SleepsBetweenChunks ==
    (Completed /\ Len(chunks) >= 1) =>
        /\ Len(sleeps) = Len(chunks) - 1
        /\ \A k \in 1 .. Len(sleeps) : sleeps[k] = THROTTLE_DELAY_MS * chunk_size

\* the chunk (index into chunks) that list position p belongs to
ChunkOf(p) == CHOOSE k \in 1 .. Len(chunks) : p \in chunks[k]

Started(p) == \E k \in 1 .. Len(chunks) : p \in chunks[k]

\* C11: chunks are processed in list order, and no send task of chunk N+1
\* starts before every send task of chunk N has settled and the sleep
\* that follows chunk N has elapsed.
C11_ChunksInOrder ==
    /\ \A k \in 1 .. Len(chunks) : \A p \in chunks[k] :
          \A q \in Positions : q < p /\ ~(q \in chunks[k]) =>
              /\ Started(q)
              /\ ChunkOf(q) < k
              /\ status[q] \in {"ok", "fail"}
    /\ Len(chunks) >= 1 => Len(sleeps) >= Len(chunks) - 1
    /\ pc = "sleep" => Len(sleeps) = Len(chunks)
    /\ pc = "gather" => Len(sleeps) = Len(chunks) - 1

C11_Witness ==
    /\ pc = "gather"
    /\ Len(chunks) = 2
    /\ Len(sleeps) = 1
    /\ status[1] = "fail"
    /\ status[2] = "inflight"

\* C12: for a message of no recognized kind send_to_user issues no platform
\* send and increments neither success nor failed.
C12_UnrecognizedKindInert ==
    (pc \notin {"idle", "raised"} /\ Dispatch(content) = "nothing") =>
        /\ \A p \in Positions : calls[p] = << >>
        /\ stats.success = 0
        /\ stats.failed = 0

\* C13: for a bare string one send_message call is issued per recipient,
\* and the recipient counts as success when the call returns.
C13_StringIsSent ==
    (Completed /\ content = StrContent) =>
        /\ \A p \in Positions :
              /\ Len(calls[p]) = 1
              /\ calls[p][1].method = "send_message"
              /\ calls[p][1].markup = reply_markup
        /\ stats.success = CountStatus("ok")
        /\ stats.failed = CountStatus("fail")
        /\ stats.failed = ErrorsSum(stats)
        /\ "AttributeError" \notin DOMAIN stats.errors

\* C14: the relay never raises to its caller: every exception raised in it
\* gives an absent result, and for an unsupported content kind the result
\* is absent and no platform send is issued.
C14_RelayNeverRaises ==
    /\ pc # "raised"
    /\ relayError # "" => (msg_id = None /\ pc \in {"relay_ret", "done"})
    /\ (relayCalls > 0 /\ content.kind \notin RelayKinds) =>
          /\ relaySends = 0
          /\ pc \in {"relay_enter", "relay_download", "relay_ret", "done"}
          /\ msg_id = None

C14_Witness ==
    /\ pc = "done"
    /\ relayError = "UnboundLocalError"
    /\ content.kind = "audio"
    /\ msg_id = None

\* C15: at every point of a run success + failed <= total, total is the
\* length of the recipient list and never changes, and success and failed
\* never decrease.
C15_CountersBounded ==
    [][ (pc' # "idle") =>
          /\ stats'.success + stats'.failed <= stats'.total
          /\ stats'.total = Len(user_ids')
          /\ (pc # "idle" =>
                /\ stats'.total = stats.total
                /\ stats'.success >= stats.success
                /\ stats'.failed >= stats.failed)
      ]_vars

C15_Witness ==
    /\ pc = "gather"
    /\ stats.success = 1
    /\ stats.failed = 1
    /\ stats.total = 3

\* C16: once universal_broadcast has returned no send task of the run is
\* still pending, so the returned statistics do not change any more.
C16_ReadOnlyAfterReturn ==
    /\ [](pc = "done" => InFlight = {})
    /\ [][(pc = "done" /\ pc' = "done") => stats' = stats]_vars

C16_Witness ==
    /\ Completed
    /\ Len(chunks) = 2
    /\ stats.success = 1
    /\ stats.failed = 2

\* ---------------------------------------------------------------------
\* Composer workflow (SpecComposer)

\* every send issued by the current run goes to the composing operator
OnlyToOperator ==
    /\ \A p \in DOMAIN user_ids : user_ids[p] = Operator
    /\ \A p \in DOMAIN calls :
          \A k \in 1 .. Len(calls[p]) : calls[p][k].to = Operator
    /\ relayCalls = 0
    /\ relaySends = 0

\* C17: a broadcast to the recipient list is started only by the
\* start_sending confirmation received in state confirmation; on every
\* other input and in every other state nothing is sent to anyone but the
\* composing operator (the preview).
C17_OnlyConfirmationBroadcasts ==
    /\ caller = "start_sending" =>
          /\ update.kind = "callback"
          /\ update.what = "start_sending"
          /\ update.at = "confirmation"
          /\ another_bot
    /\ caller # "start_sending" => OnlyToOperator

C17_Witness ==
    /\ caller = "start_sending"
    /\ pc = "done"
    /\ Len(user_ids) >= 2
    /\ \E p \in DOMAIN calls : Len(calls[p]) = 1 /\ calls[p][1].to # Operator
    /\ fsm = "confirmation"

\* the last update handled is a button label that is_valid_button_text
\* rejects
InvalidLabelHandled ==
    /\ update.what = "label"
    /\ update.text # NoText
    /\ ~IsValidButtonText(update.text[1])

\* C18: an invalid button label (longer than 64 characters, holding a
\* newline, or blank) is answered by a new prompt: the workflow stays in
\* wait_button_text, the label is not stored and no run (preview or
\* broadcast) is started with it.
C18_InvalidLabelReprompts ==
    InvalidLabelHandled =>
        /\ fsm = "wait_button_text"
        /\ data.button_text # update.text[1]
        /\ pc = "idle"
        /\ \/ reply_markup = None
           \/ reply_markup.type # "markup"
           \/ reply_markup.text # update.text[1]

\* the step handles a link message that fails validation or has no text
InvalidLinkStep ==
    /\ update' # update
    /\ update'.what = "link"
    /\ \/ update'.text = NoText
       \/ ValidateUrl(update'.text) # "ok"

\* C19: a link that fails validation, or a message without text, in state
\* wait_button_link is answered by a new prompt: the workflow stays in
\* wait_button_link, no button_link is stored and no run is started.
C19_InvalidLinkReprompts ==
    [][ InvalidLinkStep =>
          /\ fsm = "wait_button_link"
          /\ fsm' = fsm
          /\ data' = data
          /\ pc' = "idle"
          /\ caller' = "none"
          /\ calls' = << >>
          /\ reply'.key \in {"link_error", "bad_link_format"}
      ]_vars

C19_Witness ==
    /\ update.what = "link"
    /\ update.text = << "tg", ":", "//", "join" >>
    /\ reply.key = "link_error"
    /\ fsm = "wait_button_link"
    /\ data.button_link = NoText
    /\ pc = "idle"

\* ---------------------------------------------------------------------
\* Link validation (SpecUrl)

\* the link message handled is tg://<a> for one word a
TgDeepLinkHandled ==
    /\ update.at = "wait_button_link"
    /\ Len(update.text) = 4
    /\ SubSeq(update.text, 1, 3) = << "tg", ":", "//" >>
    /\ IsWord(update.text[4])

\* C20: a tg:// deep link is accepted exactly when its action name is in the
\* allow-list: tg://join is accepted, tg://unknownaction is rejected.
C20_TgActionAllowList ==
    TgDeepLinkHandled =>
        (reply.key = "link_ok" <=> update.text[4] \in AllowedActions)

\* a link message with text has been handled by handle_button_link
LinkHandled ==
    /\ update.what = "link"
    /\ update.at = "wait_button_link"
    /\ update.text # NoText

\* C21: an http/https link is accepted only with a non-empty host, a length
\* between 5 and 2048 and none of the forbidden characters, and every link
\* whose scheme is not http, https or tg is rejected.
C21_HttpLinkRules ==
    LinkHandled =>
        LET u == update.text
            parsed == UrlParse(u)
        IN  /\ parsed.scheme \notin {"http", "https", "tg"} => reply.key # "link_ok"
            /\ (parsed.scheme \in {"http", "https"} /\ reply.key = "link_ok") =>
                  /\ parsed.netloc # << >>
                  /\ UrlLen(u) >= MIN_URL_LEN
                  /\ UrlLen(u) <= MAX_URL_LEN
                  /\ \A k \in 1 .. Len(u) : u[k] \notin ForbiddenChars

\* handle_button_text is handling a label and waits for its preview
LabelBeingHandled ==
    /\ update.what = "label"
    /\ update.text # NoText
    /\ caller = "preview"

\* C22: is_valid_button_text accepts a non-blank label exactly when its
\* length is at most 64 and it holds no newline; a rejected label is
\* answered with the error text of line 222.
C22_LabelValidation ==
    LabelBeingHandled =>
        LET l == update.text[1]
        IN  /\ ~l.blank =>
                  (reply.before = "" <=> (l.len <= MAX_BUTTON_TEXT /\ ~l.newline))
            /\ l.blank => reply.before = "label_error"

C22_Witness ==
    /\ LabelBeingHandled
    /\ update.text[1].len = MAX_BUTTON_TEXT
    /\ ~update.text[1].newline
    /\ reply.before = ""
    /\ pc = "done"

\* C23: cancel is accepted in every composer state (wait_materials,
\* need_button, wait_button_link, wait_button_text, confirmation) and
\* discards everything: afterwards the FSM state is cleared and no stored
\* message, button_link or button_text remains.
C23_CancelDiscardsAll ==
    /\ (Quiet /\ fsm \in ComposerStates) => ENABLED Cancel
    /\ update.what = "cancel_sending" => (fsm = "none" /\ data = EmptyData)

C23_Witness ==
    /\ update.what = "cancel_sending"
    /\ update.at = "wait_button_text"
    /\ fsm = "none"
    /\ data = EmptyData

C29_RelayReturnsHandle ==
    (/\ pc = "relay_ret"
     /\ content.kind \in RelayKinds
     /\ relayError \notin PlatformErrors) => msg_id # None

\* C30: the button sent with the broadcast is the one shown in the preview
\* of the composition being confirmed; after 'no button' the broadcast has
\* no button, whatever the operator did before, restarts with the create
\* command included.
C30_BroadcastButtonIsPreviewed ==
    [][ (caller = "none" /\ caller' = "start_sending") =>
          IF update.what = "without_button"
          THEN reply_markup' = None
          ELSE reply_markup' = UrlKeyboard(update.text[1], data.button_link)
      ]_vars

\* ---------------------------------------------------------------------
\* Offer confirmation endpoint (SpecApi)

\* the row of the request has been committed and the response is out
PersistedAndResponded == http.pc = "responded" /\ http.saved > 0

\* persistence reported the lead as a duplicate
ReportedDuplicate == Unpacks(http.ret) /\ http.ret.is_duplicate

\* number of invocations of the adapter called name
Invocations(name) ==
    Cardinality({k \in 1 .. Len(http.adapters) : http.adapters[k].name = name})

\* C25: once the row is persisted the endpoint answers success = true with
\* the confirmation id, whatever the notification adapters did.
C25_SuccessAfterPersistence ==
    PersistedAndResponded => http.response = Success(http.saved)

\* C26: for a lead reported as duplicate no notification adapter is invoked;
\* for a lead not reported as duplicate the fan-out is performed.
C26_DuplicateSuppressesFanOut ==
    PersistedAndResponded =>
        IF ReportedDuplicate
        THEN http.adapters = << >>
        ELSE \A k \in 1 .. Len(Adapters) : Invocations(Adapters[k]) >= 1

\* C27: for a persisted non-duplicate lead each of the three adapters is
\* invoked exactly once, and a failing adapter stops neither the other
\* adapters nor the HTTP response.
C27_EachAdapterOnce ==
    (PersistedAndResponded /\ ~ReportedDuplicate) =>
        /\ Len(http.adapters) = Len(Adapters)
        /\ \A k \in 1 .. Len(Adapters) : Invocations(Adapters[k]) = 1
        /\ http.response.status = 200

\* the payload field is null or blank
FieldMissing(v) == v = Null \/ Strip(v) = ""

\* neither the email field nor additional_data gives an email
EmailNowhere(req) ==
    /\ FieldMissing(req.email)
    /\ \A k \in {"email", "user_email"} \cap DOMAIN req.additional_data.d :
          FieldMissing(req.additional_data.d[k])

\* neither the payment type field nor additional_data gives a payment type
PaymentNowhere(req) ==
    /\ FieldMissing(req.payment_type)
    /\ "payment_type" \notin DOMAIN req.additional_data.d
    /\ ~({"tariff_id", "currency"} \subseteq DOMAIN req.additional_data.d)

\* C28: a parseable payload is never rejected for missing fields: a missing
\* email becomes the placeholder email, a missing payment type "unknown",
\* and the coerced record is handed to persistence.
C28_MissingFieldsCoerced ==
    http.pc \in {"save", "responded"} =>
        /\ http.rec.email # ""
        /\ http.rec.payment_type # ""
        /\ http.rec.first_name # ""
        /\ http.rec.last_name # ""
        /\ EmailNowhere(http.req) => http.rec.email = PlaceholderEmail
        /\ ~FieldMissing(http.req.email) => http.rec.email = Strip(http.req.email)
        /\ PaymentNowhere(http.req) => http.rec.payment_type = "unknown"
        /\ http.response.status \notin {400, 422}
        /\ http.pc = "responded" => (http.saved > 0 \/ http.error = "SQLAlchemyError")

C28_Witness ==
    /\ http.pc = "responded"
    /\ http.saved > 0
    /\ http.req.email = Null
    /\ http.req.payment_type = Null
    /\ http.req.additional_data.type = "null"
    /\ http.rec.email = PlaceholderEmail
    /\ http.rec.payment_type = "unknown"
    /\ "missing_email" \in DOMAIN http.rec.additional

\* the relay is inside "async with semaphore" of line 226
InRelayBlock == pc \in {"relay_download", "relay_send"}

\* C33: the semaphore's permits are conserved: while the relay is inside its
\* scoped block one permit is taken, and whenever no relay or broadcast is
\* inside a scoped block all CONCURRENCY_LIMIT permits are available, on the
\* normal return, the absent handle and the exception path, run after run.
C33_PermitsConserved ==
    permits = IF InRelayBlock THEN CONCURRENCY_LIMIT - 1 ELSE CONCURRENCY_LIMIT

\* a relay that raised inside its block has returned and the run has ended
\* with every permit back
C33_Witness ==
    /\ pc = "done"
    /\ relayError \in PlatformErrors
    /\ semAcquires = 1
    /\ permits = CONCURRENCY_LIMIT

\* the platform methods send_to_user calls for a Message
SendMethods == {"send_photo", "send_video", "send_voice", "send_video_note",
                "send_message"}

\* C34: when a run is given an inline keyboard, every per-recipient platform
\* send of the run carries that keyboard, whichever of the five content kinds
\* is sent.
C34_EverySendCarriesMarkup ==
    \A p \in DOMAIN calls : \A k \in 1 .. Len(calls[p]) :
        /\ calls[p][k].method \in SendMethods
        /\ reply_markup = Keyboard => calls[p][k].markup = Keyboard

\* a video note was sent with a keyboard to every recipient of a list
C34_Witness ==
    /\ pc = "done"
    /\ reply_markup = Keyboard
    /\ Len(user_ids) > 1
    /\ \A p \in DOMAIN calls :
          /\ Len(calls[p]) = 1
          /\ calls[p][1].method = "send_video_note"
          /\ calls[p][1].markup = Keyboard

\* C38: every run terminates and returns its statistics, for every recipient
\* list and every chunk_size >= 1, when each platform call eventually returns
\* or raises.
C38_RunTerminates == (pc # "idle") ~> (pc = "done")

\* a run over a list of several one-recipient chunks has returned, each chunk
\* gathered and slept after
C38_Witness ==
    /\ pc = "done"
    /\ chunk_size = 1
    /\ Len(user_ids) = MaxUsers
    /\ Len(sleeps) = MaxUsers
    /\ stats.success + stats.failed = MaxUsers

\* a step in which a message of a media group is handled in wait_materials
MediaGroupHandled ==
    /\ fsm = "wait_materials"
    /\ update.what # "media_group"
    /\ update'.what = "media_group"

\* C37: a message that belongs to a media group is not accepted as content:
\* it is not stored in the FSM data and the conversation stays in
\* wait_materials.
C37_MediaGroupNotAccepted ==
    [][MediaGroupHandled => fsm' = "wait_materials" /\ data' = data]_vars

\* cancel_new_word was the last update handled, while start_sending awaits
\* its run
CancelledDuringRun ==
    /\ caller = "start_sending"
    /\ update.what = "cancel_sending"

\* C32: a cancel received after a broadcast run has started does not stop
\* it: the run goes on to return, and unless the relay gave no handle every
\* recipient has been attempted once and counted.
C32_CancelDoesNotStopRun ==
    CancelledDuringRun ~>
        /\ pc = "done"
        /\ caller = "start_sending"
        /\ Aborted \/ /\ \A p \in Positions : tasks[p] = 1
                      /\ stats.success + stats.failed = Len(user_ids)

\* the run of a cancelled composition returned with both recipients attempted
C32_Witness ==
    /\ CancelledDuringRun
    /\ pc = "done"
    /\ Len(user_ids) = MaxClients
    /\ \A p \in Positions : tasks[p] = 1
    /\ stats.success + stats.failed = MaxClients

\* C31: for each composition that reaches state confirmation at most one
\* full-list run is started, whatever the interleaving of the operator's
\* callbacks.
C31_OneRunPerComposition == full.started <= 1

\* C35: a user outside ADMIN_IDS never reaches a Sending state and never
\* starts a broadcast, whatever messages and callbacks they send to the admin
\* bot and whatever the operator does in their own conversation.
C35_OutsiderNeverComposes ==
    /\ guest.fsm = "none"
    /\ ~guest.started

\* the outsider pressed start_sending while the operator was composing
C35_Witness ==
    /\ guest.last = "start_sending"
    /\ fsm = "wait_button_text"
    /\ guest.fsm = "none"

\* C36: after any interleaving of registration handlers for the same user id
\* the clients table holds at most one row for it, so the recipient list
\* fetched for a broadcast has no duplicate.
C36_OneRowPerUser ==
    \A u \in UserIds : Cardinality({k \in 1 .. Len(AllUserIds) : AllUserIds[k] = u}) <= 1

SemRuns == 1 .. MaxRuns

\* C39: no run waits for a permit while holding one, and whenever a run
\* waits either a permit is free or a relay that holds one is inside its
\* block, which it leaves without needing another permit: relay and
\* broadcast cannot deadlock on the semaphore, for the capacities 1 to MaxCap
\* and CONCURRENCY_LIMIT and up to MaxRuns concurrent runs.
C39_NoHoldAndWait ==
    /\ \A r \in SemRuns : sem.runs[r].pc \in Waits => sem.runs[r].holds = 0
    /\ (\E r \in SemRuns : sem.runs[r].pc \in Waits) =>
           \/ sem.permits > 0
           \/ \E q \in SemRuns : sem.runs[q].pc = "relay_block" /\ sem.runs[q].holds > 0

\* with one permit, a relay holds it while one run waits at line 101 and
\* another at line 226
C39_Witness ==
    /\ sem.cap = 1
    /\ sem.permits = 0
    /\ \E q \in SemRuns : sem.runs[q].pc = "relay_block"
    /\ \E r \in SemRuns : sem.runs[r].pc = "gate_wait"
    /\ \E r \in SemRuns : sem.runs[r].pc = "relay_wait"

====
